---- MODULE Spec2Model ----
(***************************************************************************)
(* A model of go-backup-docker-image (src/main.go): the semaphore-gated    *)
(* dispatch loop of runBackup / runRestore, the per-item pipelines         *)
(* backupImage and restoreImage, and the directory listing of runList.     *)
(*                                                                         *)
(* Strings are sequences of one-character strings, so that suffix tests,   *)
(* character replacement and concatenation are computed, not assumed.      *)
(* A file is a sequence of cells: an archive cell is one block written by  *)
(* the external save process, a sidecar cell is one JSON member.           *)
(***************************************************************************)
EXTENDS Integers, Sequences, FiniteSets, TLC

\* ------------------------------------------------------------------ bounds
MaxItems == 2          \* longest work-item list of one invocation
MaxWorkersBound == 2   \* largest --workers value tried
MaxClock == 1          \* seconds that may pass during one invocation
ArchiveChunks == 2     \* blocks the save process writes per archive
MaxLines == 2          \* lines on standard input and in the --file file
MaxListings == 2       \* list invocations on one directory
MaxNameLen == 3        \* longest image name of the naming runs

\* ----------------------------------------------------------------- strings
HasSuffix(s, suffix) ==
    /\ Len(s) >= Len(suffix)
    /\ SubSeq(s, Len(s) - Len(suffix) + 1, Len(s)) = suffix

HasPrefix(s, prefix) ==
    /\ Len(s) >= Len(prefix)
    /\ SubSeq(s, 1, Len(prefix)) = prefix

TrimSuffix(s, suffix) ==
    IF HasSuffix(s, suffix) THEN SubSeq(s, 1, Len(s) - Len(suffix)) ELSE s

\* strings.ReplaceAll with a one-character pattern
ReplaceAll(s, old, new) ==
    [k \in 1..Len(s) |-> IF s[k] = old THEN new ELSE s[k]]

ExtTar == <<".", "t", "a", "r">>
ExtGz == <<".", "g", "z">>
ExtTarGz == ExtTar \o ExtGz
ExtTgz == <<".", "t", "g", "z">>
ExtJson == <<".", "j", "s", "o", "n">>

\* config.BackupDir (its default is not the point: any directory name)
BackupDir == <<"d">>

\* filepath.Join of a directory and a leaf name
Join(dir, leaf) == dir \o <<"/">> \o leaf

\* time.Now().Format("20060102-150405"): the clock is kept in whole seconds,
\* the resolution of the layout, and only the last digit of the seconds
\* field differs inside the modelled window.
Digits == <<"0", "1", "2", "3", "4", "5", "6", "7", "8", "9">>

FormatTime(t) == <<Digits[(t % 10) + 1]>>

\* --------------------------------------------------------- the engine side
ImgSlash == <<"a", "/", "b">>
ImgColon == <<"a", ":", "b">>

ImageNames == {ImgSlash, ImgColon}

\* What ImageInspectWithRaw reports for an image it knows.
EngineID(name) ==
    CASE name = ImgSlash -> "sha-1"
      [] OTHER -> "sha-2"

EngineTags(name) ==
    CASE name = ImgSlash -> <<"t1">>
      [] OTHER -> <<"t1", "t2">>

\* ------------------------------------------------------------------- state
VARIABLES
    cmd,          \* the command of the current invocation
    input,        \* the --stdin and --file flags, the lines of standard
                  \* input and of the file, the positional arguments
    items,        \* imageNames / tarballPaths after resolution
    config,       \* the global config: MaxWorkers, CompressType
    mainpc,       \* position of the command's main goroutine
    idx,          \* the range loop's position in items
    wg,           \* sync.WaitGroup counter
    semaphore,    \* number of tokens in the buffered channel
    wpc,          \* position of the goroutine spawned for each list entry
    invoked,      \* how often the per-item task was entered, per entry
    outcome,      \* what each task reported
    tarballName,  \* backupImage's tarballName, per entry
    wrote,        \* blocks the entry's save process has written
    fs,           \* the file system: path -> sequence of cells
    now,          \* the clock when it was last read, in seconds
    compressed,   \* restoreImage's compressed, per entry
    hung,         \* entries whose external process never returns
    unreadable,   \* paths os.Open fails on
    listing,      \* the entries runList printed, in the order printed
    report,       \* the headline runList printed
    shown,        \* what each list invocation so far printed as entries
    lastWriter,   \* per file, the entry that last opened or wrote it (0: an
                  \* earlier invocation); kept for the properties only
    writersSince, \* per file, the entries that wrote it since it was last
                  \* truncated; kept for the properties only
    notices       \* "All ... operations completed" lines printed

vars == <<cmd, input, shown, items, config, mainpc, idx, wg, semaphore, wpc, invoked,
          outcome, tarballName, wrote, fs, lastWriter, writersSince, now,
          compressed, hung, unreadable, listing, report, notices>>

Slots == 1..MaxItems

N == Len(items)

\* ------------------------------------------------------------ file system
Exists(f, p) == p \in DOMAIN f

\* A write of data at offset 0 through a descriptor of its own: what lay
\* beyond the written bytes stays.
WriteAt0(old, data) ==
    data \o SubSeq(old, Len(data) + 1, Len(old))

\* What a read finds where nothing was written (a sparse file's zeros).
Hole == [by |-> <<0, 0>>, img |-> <<>>, enc |-> "zero", k |-> 0]

\* A write of one block at block offset k (1-based) of an archive.
WriteBlock(old, k, cell) ==
    [j \in 1..(IF Len(old) > k THEN Len(old) ELSE k) |->
        IF j = k THEN cell
        ELSE IF j <= Len(old) THEN old[j]
        ELSE Hole]

\* An open with O_CREAT and without O_TRUNC: an existing file keeps its bytes.
OpenKeep(f, p) ==
    [q \in DOMAIN f \cup {p} |-> IF q \in DOMAIN f THEN f[q] ELSE <<>>]

\* open with O_CREAT|O_TRUNC (os.Create, the shell's ">", docker save -o)
Truncate(f, p) ==
    [q \in DOMAIN f \cup {p} |-> IF q = p THEN <<>> ELSE f[q]]

Put(f, p, content) ==
    [q \in DOMAIN f \cup {p} |-> IF q = p THEN content ELSE f[q]]

\* ---------------------------------------------------------- naming policy
\* A sanitization that forgets the colon.
SanitizeSlashOnly(imageName) == ReplaceAll(imageName, "/", "_")

Sanitize(imageName) ==
    ReplaceAll(ReplaceAll(imageName, "/", "_"), ":", "_")

TarballName(imageName, t, compressType) ==
    LET base == Join(BackupDir,
                     Sanitize(imageName) \o <<"-">> \o FormatTime(t) \o ExtTar)
    IN IF compressType = "gzip" THEN base \o ExtGz ELSE base

MetadataPath(tarballPath) == tarballPath \o ExtJson

\* A save that never pipes through gzip.
SaveEncodingRaw(compressType) == "raw"

\* How the archive is produced: through gzip exactly on "gzip".
SaveEncoding(compressType) == IF compressType = "gzip" THEN "gzip" ELSE "raw"

\* ------------------------------------------------------------- the sidecar
\* An ImageInfo whose compress type is the default instead of the one in use.
ImageInfoDefaultType(imageName, compressType) ==
    [image_name |-> imageName,
     image_id |-> EngineID(imageName),
     tags |-> EngineTags(imageName),
     compress_type |-> "gzip"]

\* ImageInfo as backupImage fills it in.  Size and BackupDate are written
\* and never read back by restoreImage or runList; they are left out.
ImageInfo(imageName, compressType) ==
    [image_name |-> imageName,
     image_id |-> EngineID(imageName),
     tags |-> EngineTags(imageName),
     compress_type |-> compressType]

\* One cell of a JSON document: a member, with the object's opening brace
\* on its first member and the closing brace on its last.
Member(key, val, open, close) ==
    [key |-> key, val |-> val, open |-> open, close |-> close]

\* json.Encoder.Encode: one member per cell, the tag list one cell per tag.
EncodeInfo(info) ==
    <<Member("image_name", info.image_name, TRUE, FALSE),
      Member("image_id", info.image_id, FALSE, FALSE)>>
    \o [k \in 1..Len(info.tags) |-> Member("tags", info.tags[k], FALSE, FALSE)]
    \o <<Member("compress_type", info.compress_type, FALSE, TRUE)>>

\* The cells as they lie in a file, each with the process that wrote it:
\* <<0, n>> for an earlier invocation, <<1, i>> for entry i of this one.
Stamp(cells, w) ==
    [k \in 1..Len(cells) |->
       [by |-> w, key |-> cells[k].key, val |-> cells[k].val,
        open |-> cells[k].open, close |-> cells[k].close]]

\* The zero ImageInfo a decoder starts from.
ZeroInfo ==
    [image_name |-> <<>>, image_id |-> "", tags |-> <<>>, compress_type |-> ""]

Max(S) == CHOOSE x \in S : \A y \in S : y <= x
Min(S) == CHOOSE x \in S : \A y \in S : x <= y

\* The value of the last member named key among the first n cells.
LastVal(content, n, key, default) ==
    LET ks == {k \in 1..n : content[k].key = key}
    IN IF ks = {} THEN default ELSE content[Max(ks)].val

IsTag(cell) == cell.key = "tags"

TagVals(content, n) ==
    LET cells == SelectSeq(SubSeq(content, 1, n), IsTag)
    IN [k \in 1..Len(cells) |-> cells[k].val]

\* json.Decoder.Decode into an ImageInfo: the first complete object of the
\* stream is decoded, whatever follows it is not looked at; a stream that
\* does not start an object, or ends inside it, is an error.
DecodeInfo(content) ==
    LET closes == {k \in 1..Len(content) : content[k].close}
        n == IF closes = {} THEN 0 ELSE Min(closes)
    IN IF Len(content) = 0 \/ ~content[1].open \/ closes = {}
       THEN [ok |-> FALSE, info |-> ZeroInfo]
       ELSE [ok |-> TRUE,
             info |-> [image_name |-> LastVal(content, n, "image_name", <<>>),
                       image_id |-> LastVal(content, n, "image_id", ""),
                       tags |-> TagVals(content, n),
                       compress_type |-> LastVal(content, n, "compress_type", "")]]


\* ------------------------------------------------- restore: compression kind
\* A detection that asks the sidecar first and the suffix only without one.
DetectSidecarFirst(f, locked, tarballPath) ==
    LET metadataPath == MetadataPath(tarballPath)
    IN IF /\ Exists(f, metadataPath)
          /\ metadataPath \notin locked
          /\ DecodeInfo(f[metadataPath]).ok
       THEN DecodeInfo(f[metadataPath]).info.compress_type = "gzip"
       ELSE HasSuffix(tarballPath, ExtTarGz) \/ HasSuffix(tarballPath, ExtTgz)

\* restoreImage's choice of the decode path: the suffix first, then the
\* sidecar if os.Stat finds it, os.Open opens it and it decodes.
DetectCompressed(f, locked, tarballPath) ==
    IF HasSuffix(tarballPath, ExtTarGz) \/ HasSuffix(tarballPath, ExtTgz)
    THEN TRUE
    ELSE LET metadataPath == MetadataPath(tarballPath)
         IN IF /\ Exists(f, metadataPath)
               /\ metadataPath \notin locked
               /\ DecodeInfo(f[metadataPath]).ok
            THEN DecodeInfo(f[metadataPath]).info.compress_type = "gzip"
            ELSE FALSE

\* ------------------------------------------------------ the list of items
\* strings.TrimSpace: the line less its leading and trailing white space
TrimSpace(line) ==
    LET inked == {k \in 1..Len(line) : line[k] # " "}
    IN IF inked = {} THEN <<>> ELSE SubSeq(line, Min(inked), Max(inked))

NotEmpty(name) == name # <<>>

\* The scanner loop: every line trimmed, the ones left empty dropped.
ScanLines(lines) ==
    SelectSeq([k \in 1..Len(lines) |-> TrimSpace(lines[k])], NotEmpty)

\* A resolution that looks at --file before --stdin.
ResolveItemsFileFirst(in) ==
    IF in.file # <<>>
    THEN IF in.fileOK
         THEN [items |-> ScanLines(in.fileLines), fatal |-> ~in.readOK]
         ELSE [items |-> <<>>, fatal |-> TRUE]
    ELSE IF in.stdin
    THEN [items |-> ScanLines(in.stdinLines), fatal |-> ~in.readOK]
    ELSE [items |-> in.args, fatal |-> FALSE]

\* imageNames / tarballPaths as runBackup and runRestore build it, and
\* whether a log.Fatalf ended the process while building it: standard
\* input on --stdin, else the file on a non-empty --file, else the
\* arguments; a source that cannot be opened or read through is fatal.
ResolveItems(in) ==
    IF in.stdin
    THEN [items |-> ScanLines(in.stdinLines), fatal |-> ~in.readOK]
    ELSE IF in.file # <<>>
    THEN IF in.fileOK
         THEN [items |-> ScanLines(in.fileLines), fatal |-> ~in.readOK]
         ELSE [items |-> <<>>, fatal |-> TRUE]
    ELSE [items |-> in.args, fatal |-> FALSE]

\* An invocation with positional arguments only.
Positional(list) ==
    [stdin |-> FALSE, file |-> <<>>, fileOK |-> TRUE, readOK |-> TRUE,
     stdinLines |-> <<>>, fileLines |-> <<>>, args |-> list]

\* --------------------------------------------------------- the initial state
ItemLists(S) == UNION {[1..n -> S] : n \in 0..MaxItems}

\* Archive paths a restore may be given.
RestorePaths ==
    {Join(BackupDir, <<"x">> \o ext) : ext \in {ExtTarGz, ExtTgz, ExtTar}}

\* What may lie at a sidecar path before the program runs.
SidecarKinds == {"absent", "gzip", "none", "odd", "malformed"}

SidecarOfKind(kind) ==
    Stamp(CASE kind = "gzip" -> EncodeInfo(ImageInfo(ImgSlash, "gzip"))
            [] kind = "none" -> EncodeInfo(ImageInfo(ImgColon, "none"))
            [] kind = "odd" -> EncodeInfo(ImageInfo(ImgSlash, "GZIP"))
            [] OTHER -> SubSeq(EncodeInfo(ImageInfo(ImgSlash, "gzip")), 1, 2),
          <<0, 1>>)

\* A foreign archive: one block nobody of this invocation wrote.
ForeignArchive == <<[by |-> <<0, 1>>, img |-> ImgSlash, enc |-> "raw", k |-> 1]>>

\* A directory holding every restore path, each with a sidecar of one kind.
DirOfKind(kind) ==
    LET arch == RestorePaths
        side == IF kind = "absent" THEN {}
                ELSE {MetadataPath(p) : p \in RestorePaths}
    IN [q \in arch \cup side |->
          IF q \in arch THEN ForeignArchive ELSE SidecarOfKind(kind)]

EmptyDir == <<>>

\* A directory of every sort of entry: archives with a valid, a malformed
\* and no sidecar, a sidecar without archive, a file that is neither, and
\* a subdirectory named like an archive.
MixedDir ==
    LET x == Join(BackupDir, <<"x">> \o ExtTarGz)
        y == Join(BackupDir, <<"y">> \o ExtTar)
        z == Join(BackupDir, <<"z">> \o ExtTgz)
    IN (x :> ForeignArchive)
       @@ (MetadataPath(x) :> SidecarOfKind("gzip"))
       @@ (y :> ForeignArchive \o ForeignArchive)
       @@ (MetadataPath(y) :> SidecarOfKind("malformed"))
       @@ (z :> ForeignArchive)
       @@ (Join(BackupDir, <<"w">> \o ExtTar \o ExtJson) :> SidecarOfKind("none"))
       @@ (Join(BackupDir, <<"n">>) :> ForeignArchive)
       @@ (Join(Join(BackupDir, <<"o">> \o ExtTar), <<"i">> \o ExtTar)
             :> ForeignArchive)

\* A directory with one archive and two sidecars named almost like it: one
\* after the archive's name less its suffix, one after a longer name.
NearMissDir ==
    LET x == Join(BackupDir, <<"x">> \o ExtTar)
    IN (x :> ForeignArchive)
       @@ (Join(BackupDir, <<"x">> \o ExtJson) :> SidecarOfKind("none"))
       @@ (Join(BackupDir, <<"x">> \o ExtTarGz \o ExtJson) :> SidecarOfKind("gzip"))

\* A directory as an earlier, successful backup of one image left it.
EarlierDir(compressType) ==
    LET a == TarballName(ImgColon, 0, compressType)
    IN (a :> [k \in 1..ArchiveChunks |->
                [by |-> <<0, 1>>, img |-> ImgColon,
                 enc |-> IF compressType = "gzip" THEN "gzip" ELSE "raw",
                 k |-> k]])
       @@ (MetadataPath(a) :>
             Stamp(EncodeInfo(ImageInfo(ImgColon, compressType)), <<0, 1>>))

Sidecars(f) == {q \in DOMAIN f : HasSuffix(q, ExtJson)}

\* At most one sidecar of the directory cannot be opened.
Locked(f) == {{}} \cup {{q} : q \in Sidecars(f)}

BackupInputs ==
    /\ cmd = "backup"
    /\ input \in {Positional(l) : l \in ItemLists(ImageNames)}
    /\ config \in [MaxWorkers : 0..MaxWorkersBound, CompressType : {"gzip", "none"}]
    /\ fs \in {EmptyDir, EarlierDir("gzip"), EarlierDir("none")}
    /\ unreadable = {}

RestoreInputs ==
    /\ cmd = "restore"
    /\ input \in {Positional(l) : l \in ItemLists(RestorePaths)}
    /\ config \in [MaxWorkers : 0..MaxWorkersBound, CompressType : {"gzip"}]
    /\ fs \in {DirOfKind(kind) : kind \in SidecarKinds}
    /\ unreadable \in Locked(fs)

ListInputs ==
    /\ cmd = "list"
    /\ input = Positional(<<>>)
    /\ config \in [MaxWorkers : {3}, CompressType : {"gzip"}]
    /\ fs \in {DirOfKind(kind) : kind \in SidecarKinds}
              \cup {EmptyDir, MixedDir, NearMissDir,
                    EarlierDir("gzip"), EarlierDir("none")}
    /\ unreadable \in Locked(fs)

Defaults ==
    /\ mainpc = "resolve"
    /\ items = <<>>
    /\ idx = 1
    /\ wg = 0
    /\ semaphore = 0
    /\ wpc = [i \in Slots |-> "idle"]
    /\ invoked = [i \in Slots |-> 0]
    /\ outcome = [i \in Slots |-> "none"]
    /\ tarballName = [i \in Slots |-> <<>>]
    /\ wrote = [i \in Slots |-> 0]
    /\ compressed = [i \in Slots |-> FALSE]
    /\ now = 0
    /\ lastWriter = [p \in DOMAIN fs |-> 0]
    /\ writersSince = [p \in DOMAIN fs |-> {0}]
    /\ listing = <<>>
    /\ report = ""
    /\ shown = <<>>
    /\ notices = 0

\* Every external process returns.
Init == (BackupInputs \/ RestoreInputs \/ ListInputs) /\ Defaults /\ hung = {}

InitBackup == BackupInputs /\ Defaults /\ hung = {}

InitRestore == RestoreInputs /\ Defaults /\ hung = {}

InitList == ListInputs /\ Defaults /\ hung = {}

\* What a line naming an item may look like, and the blank lines.
LineShapes(name) == {<<>>, <<" ">>, name, <<" ">> \o name \o <<" ">>}

LineLists(name, most) == UNION {[1..n -> LineShapes(name)] : n \in 0..most}

LinesOf(c) == IF c = "backup" THEN MaxLines - 1 ELSE MaxLines

\* The three sources of one invocation name different items, so that the
\* list tells which source it was built from.
SourceNames(c) ==
    IF c = "backup"
    THEN [stdin |-> ImgSlash, file |-> ImgColon, args |-> <<ImgColon, ImgSlash>>]
    ELSE [stdin |-> Join(BackupDir, <<"x">> \o ExtTarGz),
          file  |-> Join(BackupDir, <<"x">> \o ExtTgz),
          args  |-> <<Join(BackupDir, <<"x">> \o ExtTar)>>]

\* Invocations with every combination of --stdin, --file and arguments;
\* a backup is given one line less than a restore.
InitResolve ==
    /\ cmd \in {"backup", "restore"}
    /\ input \in [stdin      : BOOLEAN,
                  file       : {<<>>, <<"f">>},
                  fileOK     : BOOLEAN,
                  readOK     : BOOLEAN,
                  stdinLines : LineLists(SourceNames(cmd).stdin, LinesOf(cmd)),
                  fileLines  : LineLists(SourceNames(cmd).file, LinesOf(cmd)),
                  args       : {<<>>, SourceNames(cmd).args}]
    /\ config = [MaxWorkers |-> 1, CompressType |-> "gzip"]
    /\ fs = IF cmd = "backup" THEN EmptyDir ELSE DirOfKind("gzip")
    /\ unreadable = {}
    /\ hung = {}
    /\ Defaults

\* Image names of every shape: the strings over a letter, the two
\* characters that are replaced and the one that replaces them.
NameChars == {"a", "/", ":", "_"}

Names == UNION {[1..n -> NameChars] : n \in 0..MaxNameLen}

\* A backup of one image of any name into an empty directory.
InitNaming ==
    /\ cmd = "backup"
    /\ input \in {Positional(l) : l \in [1..1 -> Names]}
    /\ config \in [MaxWorkers : {1}, CompressType : {"gzip", "none"}]
    /\ fs = EmptyDir
    /\ unreadable = {}
    /\ Defaults
    /\ hung = {}

\* Some entries' external process (docker save, docker load) never returns.
\* The directory is the empty one for a backup and one without sidecars
\* for a restore.
InitHang ==
    /\ BackupInputs \/ RestoreInputs
    /\ fs \in {EmptyDir, DirOfKind("absent")}
    /\ unreadable = {}
    /\ Defaults
    /\ hung \in SUBSET (1..Len(input.args))

\* ------------------------------------------------------- the main goroutine
\* runBackup / runRestore up to the dispatch loop: an empty list ends the
\* process, and so does, for a backup, a directory that cannot be created
\* or an engine client that cannot be built.
\* A start without the test for an empty list: the loop runs zero times.
ResolveNoEmptyTest ==
    /\ mainpc = "resolve"
    /\ cmd \in {"backup", "restore"}
    /\ items' = ResolveItems(input).items
    /\ \E setupOK \in BOOLEAN :
          mainpc' = IF \/ ResolveItems(input).fatal
                       \/ cmd = "backup" /\ ~setupOK
                    THEN "fatal"
                    ELSE IF Len(items') = 0 THEN "wait" ELSE "add"
    /\ UNCHANGED <<cmd, input, shown, config, idx, wg, semaphore, wpc, invoked,
                   outcome, tarballName, wrote, fs, lastWriter, writersSince,
                   now, compressed, hung, notices, unreadable, listing, report>>

Resolve ==
    /\ mainpc = "resolve"
    /\ cmd \in {"backup", "restore"}
    /\ items' = ResolveItems(input).items
    /\ \E setupOK \in BOOLEAN :
          mainpc' = IF \/ ResolveItems(input).fatal
                       \/ Len(items') = 0
                       \/ cmd = "backup" /\ ~setupOK
                    THEN "fatal" ELSE "add"
    /\ UNCHANGED <<cmd, input, shown, config, idx, wg, semaphore, wpc, invoked,
                   outcome, tarballName, wrote, fs, lastWriter, writersSince, now, compressed, hung,
                   notices,
                   unreadable, listing, report>>

\* wg.Add(1) of the loop body
Add ==
    /\ mainpc = "add"
    /\ wg' = wg + 1
    /\ mainpc' = "acquire"
    /\ UNCHANGED <<cmd, input, shown, items, config, idx, semaphore, wpc, invoked, outcome,
                   tarballName, wrote, fs, lastWriter, writersSince, now, compressed, hung, notices,
                   unreadable, listing, report>>

\* A send that never blocks (an unbuffered gate forgotten).
AcquireUnbounded ==
    /\ mainpc = "acquire"
    /\ semaphore' = semaphore + 1
    /\ wpc' = [wpc EXCEPT ![idx] = "spawned"]
    /\ idx' = idx + 1
    /\ mainpc' = IF idx < N THEN "add" ELSE "wait"
    /\ UNCHANGED <<cmd, input, shown, items, config, wg, invoked, outcome, tarballName,
                   wrote, fs, lastWriter, writersSince, now, compressed, hung, notices,
                   unreadable, listing, report>>

\* A loop that walks the list from its end.
AcquireLastFirst ==
    /\ mainpc = "acquire"
    /\ semaphore < config.MaxWorkers
    /\ semaphore' = semaphore + 1
    /\ wpc' = [wpc EXCEPT ![N + 1 - idx] = "spawned"]
    /\ idx' = idx + 1
    /\ mainpc' = IF idx < N THEN "add" ELSE "wait"
    /\ UNCHANGED <<cmd, input, shown, items, config, wg, invoked, outcome,
                   tarballName, wrote, fs, lastWriter, writersSince, now,
                   compressed, hung, notices, unreadable, listing, report>>

\* semaphore <- struct{}{} blocks while the channel is full; the go
\* statement that follows makes the entry's goroutine runnable.
Acquire ==
    /\ mainpc = "acquire"
    /\ semaphore < config.MaxWorkers
    /\ semaphore' = semaphore + 1
    /\ wpc' = [wpc EXCEPT ![idx] = "spawned"]
    /\ idx' = idx + 1
    /\ mainpc' = IF idx < N THEN "add" ELSE "wait"
    /\ UNCHANGED <<cmd, input, shown, items, config, wg, invoked, outcome, tarballName,
                   wrote, fs, lastWriter, writersSince, now, compressed, hung, notices,
                   unreadable, listing, report>>

\* A join that does not wait for the counter.
WaitEarly ==
    /\ mainpc = "wait"
    /\ mainpc' = "done"
    /\ notices' = notices + 1
    /\ UNCHANGED <<cmd, input, shown, items, config, idx, wg, semaphore, wpc, invoked,
                   outcome, tarballName, wrote, fs, lastWriter, writersSince, now, compressed, hung,
                   unreadable, listing, report>>

\* A join that ends the process with a failure, and without the notice,
\* when some entry reported one.
WaitExitOnFailure ==
    /\ mainpc = "wait"
    /\ wg = 0
    /\ IF \E i \in 1..N : outcome[i] \notin {"none", "ok"}
       THEN mainpc' = "fatal" /\ notices' = notices
       ELSE mainpc' = "done" /\ notices' = notices + 1
    /\ UNCHANGED <<cmd, input, shown, items, config, idx, wg, semaphore, wpc, invoked,
                   outcome, tarballName, wrote, fs, lastWriter, writersSince,
                   now, compressed, hung, unreadable, listing, report>>

\* wg.Wait() returns when the counter is zero; the notice is printed.
Wait ==
    /\ mainpc = "wait"
    /\ wg = 0
    /\ mainpc' = "done"
    /\ notices' = notices + 1
    /\ UNCHANGED <<cmd, input, shown, items, config, idx, wg, semaphore, wpc, invoked,
                   outcome, tarballName, wrote, fs, lastWriter, writersSince, now, compressed, hung,
                   unreadable, listing, report>>

\* ------------------------------------------------------ the item goroutine
\* The goroutine runs and enters backupImage / restoreImage.
TaskBegin(i) ==
    /\ wpc[i] = "spawned"
    /\ invoked' = [invoked EXCEPT ![i] = @ + 1]
    /\ wpc' = [wpc EXCEPT ![i] = IF cmd = "backup" THEN "inspect" ELSE "detect"]
    /\ UNCHANGED <<cmd, input, shown, items, config, mainpc, idx, wg, semaphore, outcome,
                   tarballName, wrote, fs, lastWriter, writersSince, now, compressed, hung, notices,
                   unreadable, listing, report>>

\* log.Fatalf in place of log.Printf and return: the process exits and
\* every goroutine dies with it.
FailItemFatal(i, kind) ==
    /\ outcome' = [outcome EXCEPT ![i] = kind]
    /\ wpc' = [j \in Slots |-> IF wpc[j] \in {"idle", "finished"}
                               THEN wpc[j] ELSE "killed"]
    /\ mainpc' = "exited"

\* log.Printf of the failure, then return: the item ends, nothing else does.
FailItem(i, kind) ==
    /\ outcome' = [outcome EXCEPT ![i] = kind]
    /\ wpc' = [wpc EXCEPT ![i] = "ret"]
    /\ mainpc' = mainpc

\* The item's pipeline ran to its end.
Succeed(i) ==
    /\ outcome' = [outcome EXCEPT ![i] = "ok"]
    /\ wpc' = [wpc EXCEPT ![i] = "ret"]
    /\ mainpc' = mainpc

\* cli.ImageInspectWithRaw, then safeImageName, timestamp and tarballName.
\* time.Now() is the only reader of the clock: it finds the time of the
\* last reading or a later one.
Inspect(i) ==
    /\ wpc[i] = "inspect"
    /\ \E found \in BOOLEAN :
          IF found
          THEN /\ \E t \in now..MaxClock :
                    /\ now' = t
                    /\ tarballName' =
                         [tarballName EXCEPT
                            ![i] = TarballName(items[i], t, config.CompressType)]
               /\ wpc' = [wpc EXCEPT ![i] = "save"]
               /\ UNCHANGED <<outcome, mainpc>>
          ELSE /\ FailItem(i, "inspect failed")
               /\ UNCHANGED <<tarballName, now>>
    /\ UNCHANGED <<cmd, input, shown, items, config, idx, wg, semaphore, invoked, wrote, fs, lastWriter, writersSince,
                   compressed, hung, notices,
                   unreadable, listing, report>>

\* cmd.Run(), first part: the save process (the shell's redirection, or
\* docker save -o) opens the destination, truncating it.
SaveOpen(i) ==
    /\ wpc[i] = "save"
    /\ fs' = Truncate(fs, tarballName[i])
    /\ lastWriter' = Put(lastWriter, tarballName[i], i)
    /\ writersSince' = Put(writersSince, tarballName[i], {i})
    /\ wrote' = [wrote EXCEPT ![i] = 0]
    /\ wpc' = [wpc EXCEPT ![i] = "write"]
    /\ UNCHANGED <<cmd, input, shown, items, config, mainpc, idx, wg, semaphore, invoked,
                   outcome, tarballName, now, compressed, hung, notices,
                   unreadable, listing, report>>

\* cmd.Run(), the save process writes its next block at its own offset.
SaveWrite(i) ==
    /\ wpc[i] = "write"
    /\ i \notin hung
    /\ wrote[i] < ArchiveChunks
    /\ LET k == wrote[i] + 1
           cell == [by |-> <<1, i>>, img |-> items[i],
                    enc |-> SaveEncoding(config.CompressType), k |-> k]
       IN fs' = Put(fs, tarballName[i], WriteBlock(fs[tarballName[i]], k, cell))
    /\ lastWriter' = Put(lastWriter, tarballName[i], i)
    /\ writersSince' = Put(writersSince, tarballName[i],
                           writersSince[tarballName[i]] \cup {i})
    /\ wrote' = [wrote EXCEPT ![i] = @ + 1]
    /\ UNCHANGED <<cmd, input, shown, items, config, mainpc, idx, wg, semaphore, wpc, invoked,
                   outcome, tarballName, now, compressed, hung, notices,
                   unreadable, listing, report>>

\* A failed save that removes what it wrote before returning.
SaveFailCleanup(i) ==
    /\ wpc[i] \in {"save", "write"}
    /\ i \notin hung
    /\ FailItem(i, "save failed")
    /\ wrote' = [wrote EXCEPT ![i] = 0]
    /\ fs' = [q \in DOMAIN fs \ {tarballName[i]} |-> fs[q]]
    /\ UNCHANGED <<lastWriter, writersSince>>
    /\ UNCHANGED <<cmd, input, shown, items, config, idx, wg, semaphore, invoked,
                   tarballName, now, compressed, hung, notices,
                   unreadable, listing, report>>

\* A failed save that is logged without the return: the sidecar is
\* written all the same.
SaveFailIgnored(i) ==
    /\ wpc[i] \in {"save", "write"}
    /\ i \notin hung
    /\ outcome' = [outcome EXCEPT ![i] = "save failed"]
    /\ wpc' = [wpc EXCEPT ![i] = "encode"]
    /\ wrote' = [wrote EXCEPT ![i] = 0]
    /\ fs' = Truncate(fs, MetadataPath(tarballName[i]))
    /\ lastWriter' = Put(lastWriter, MetadataPath(tarballName[i]), i)
    /\ writersSince' = Put(writersSince, MetadataPath(tarballName[i]), {i})
    /\ UNCHANGED <<cmd, input, shown, items, config, mainpc, idx, wg, semaphore, invoked,
                   tarballName, now, compressed, hung, notices,
                   unreadable, listing, report>>

\* cmd.Run() returns an error, before the destination was opened or after
\* any number of blocks: whatever was written stays.
SaveFail(i) ==
    /\ wpc[i] \in {"save", "write"}
    /\ i \notin hung
    /\ FailItem(i, "save failed")
    /\ wrote' = [wrote EXCEPT ![i] = 0]
    /\ UNCHANGED <<cmd, input, shown, items, config, idx, wg, semaphore, invoked,
                   tarballName, fs, lastWriter, writersSince, now, compressed, hung, notices,
                   unreadable, listing, report>>

\* cmd.Run() returns nil; imageInfo is filled in and os.Create(metadataPath)
\* is called.  docker save -o returns 0 once it has written everything.  Of
\* sh -c "docker save | gzip > file" the status is that of gzip, the last
\* command of the pipeline: it is 0 also when docker save died after any
\* number of blocks and gzip closed what it had received.
CreateSidecar(i) ==
    /\ wpc[i] = "write"
    /\ i \notin hung
    /\ wrote[i] = ArchiveChunks \/ config.CompressType = "gzip"
    /\ \E created \in BOOLEAN :
          IF created
          THEN /\ fs' = Truncate(fs, MetadataPath(tarballName[i]))
               /\ lastWriter' = Put(lastWriter, MetadataPath(tarballName[i]), i)
               /\ writersSince' =
                     Put(writersSince, MetadataPath(tarballName[i]), {i})
               /\ wpc' = [wpc EXCEPT ![i] = "encode"]
               /\ UNCHANGED <<outcome, mainpc>>
          ELSE /\ FailItem(i, "metadata create failed")
               /\ UNCHANGED <<fs, lastWriter, writersSince>>
    /\ wrote' = [wrote EXCEPT ![i] = 0]
    /\ UNCHANGED <<cmd, input, shown, items, config, idx, wg, semaphore, invoked,
                   tarballName, now, compressed, hung, notices,
                   unreadable, listing, report>>

\* An imageInfo filled in from the loop variable as the goroutine finds it
\* when it runs: the name of the last entry.
EncodeSidecarLastItem(i) ==
    /\ wpc[i] = "encode"
    /\ LET path == MetadataPath(tarballName[i])
           doc == EncodeInfo(ImageInfo(items[N], config.CompressType))
       IN \E n \in 0..Len(doc) :
            /\ fs' = Put(fs, path,
                         WriteAt0(fs[path], Stamp(SubSeq(doc, 1, n), <<1, i>>)))
            /\ IF n = 0
               THEN UNCHANGED <<lastWriter, writersSince>>
               ELSE /\ lastWriter' = Put(lastWriter, path, i)
                    /\ writersSince' =
                          Put(writersSince, path, writersSince[path] \cup {i})
            /\ IF n = Len(doc)
               THEN Succeed(i)
               ELSE FailItem(i, "metadata write failed")
    /\ UNCHANGED <<cmd, input, shown, items, config, idx, wg, semaphore, invoked,
                   tarballName, wrote, now, compressed, hung, notices,
                   unreadable, listing, report>>

\* encoder.Encode(imageInfo): one write of the whole document at offset 0,
\* or, on failure, of some proper prefix of it.
EncodeSidecar(i) ==
    /\ wpc[i] = "encode"
    /\ LET path == MetadataPath(tarballName[i])
           doc == EncodeInfo(ImageInfo(items[i], config.CompressType))
       IN \E n \in 0..Len(doc) :
            /\ fs' = Put(fs, path,
                         WriteAt0(fs[path], Stamp(SubSeq(doc, 1, n), <<1, i>>)))
            /\ IF n = 0
               THEN UNCHANGED <<lastWriter, writersSince>>
               ELSE /\ lastWriter' = Put(lastWriter, path, i)
                    /\ writersSince' =
                          Put(writersSince, path, writersSince[path] \cup {i})
            /\ IF n = Len(doc)
               THEN Succeed(i)
               ELSE FailItem(i, "metadata write failed")
    /\ UNCHANGED <<cmd, input, shown, items, config, idx, wg, semaphore, invoked,
                   tarballName, wrote, now, compressed, hung, notices,
                   unreadable, listing, report>>

\* restoreImage: the decode path is chosen.
Detect(i) ==
    /\ wpc[i] = "detect"
    /\ compressed' = [compressed EXCEPT
                        ![i] = DetectCompressed(fs, unreadable, items[i])]
    /\ wpc' = [wpc EXCEPT ![i] = "load"]
    /\ UNCHANGED <<cmd, input, shown, items, config, mainpc, idx, wg, semaphore, invoked,
                   outcome, tarballName, wrote, fs, lastWriter, writersSince, now, hung, notices,
                   unreadable, listing, report>>

\* gunzip without -c: the archive is unpacked in place and the compressed
\* file removed.
LoadInPlace(i) ==
    /\ wpc[i] = "load"
    /\ i \notin hung
    /\ \E loaded \in BOOLEAN :
          IF loaded THEN Succeed(i) ELSE FailItem(i, "load failed")
    /\ fs' = IF compressed[i]
             THEN [q \in DOMAIN fs \ {items[i]} |-> fs[q]]
             ELSE fs
    /\ UNCHANGED <<cmd, input, shown, items, config, idx, wg, semaphore, invoked,
                   tarballName, wrote, lastWriter, writersSince, now, compressed, hung, notices,
                   unreadable, listing, report>>

\* cmd.CombinedOutput() of gunzip | docker load, or of docker load -i
Load(i) ==
    /\ wpc[i] = "load"
    /\ i \notin hung
    /\ \E loaded \in BOOLEAN :
          IF loaded THEN Succeed(i) ELSE FailItem(i, "load failed")
    /\ UNCHANGED <<cmd, input, shown, items, config, idx, wg, semaphore, invoked,
                   tarballName, wrote, fs, lastWriter, writersSince, now, compressed, hung, notices,
                   unreadable, listing, report>>

\* A return that never gives the slot back.
ReleaseLeak(i) ==
    /\ wpc[i] = "ret"
    /\ semaphore' = semaphore
    /\ wpc' = [wpc EXCEPT ![i] = "released"]
    /\ UNCHANGED <<cmd, input, shown, items, config, mainpc, idx, wg, invoked, outcome,
                   tarballName, wrote, fs, lastWriter, writersSince, now,
                   compressed, hung, notices, unreadable, listing, report>>

\* A receive placed after the last statement of the task instead of in a
\* defer: the returns of the failure paths skip it.
ReleaseOnSuccessOnly(i) ==
    /\ wpc[i] = "ret"
    /\ semaphore' = IF outcome[i] = "ok" THEN semaphore - 1 ELSE semaphore
    /\ wpc' = [wpc EXCEPT ![i] = "released"]
    /\ UNCHANGED <<cmd, input, shown, items, config, mainpc, idx, wg, invoked, outcome,
                   tarballName, wrote, fs, lastWriter, writersSince, now,
                   compressed, hung, notices, unreadable, listing, report>>

\* the deferred func() { <-semaphore }(), run first
Release(i) ==
    /\ wpc[i] = "ret"
    /\ semaphore' = semaphore - 1
    /\ wpc' = [wpc EXCEPT ![i] = "released"]
    /\ UNCHANGED <<cmd, input, shown, items, config, mainpc, idx, wg, invoked, outcome,
                   tarballName, wrote, fs, lastWriter, writersSince, now, compressed, hung, notices,
                   unreadable, listing, report>>

\* A goroutine that ends without wg.Done().
DoneNoCount(i) ==
    /\ wpc[i] = "released"
    /\ wg' = wg
    /\ wpc' = [wpc EXCEPT ![i] = "finished"]
    /\ UNCHANGED <<cmd, input, shown, items, config, mainpc, idx, semaphore,
                   invoked, outcome, tarballName, wrote, fs, lastWriter,
                   writersSince, now, compressed, hung, notices, unreadable,
                   listing, report>>

\* the deferred wg.Done(), run last
Done(i) ==
    /\ wpc[i] = "released"
    /\ wg' = wg - 1
    /\ wpc' = [wpc EXCEPT ![i] = "finished"]
    /\ UNCHANGED <<cmd, input, shown, items, config, mainpc, idx, semaphore, invoked,
                   outcome, tarballName, wrote, fs, lastWriter, writersSince, now, compressed, hung,
                   notices,
                   unreadable, listing, report>>

\* ------------------------------------------------------------------ list
\* os.ReadDir: the names directly under the directory; an entry is a
\* directory when some path goes through it.
UnderDir(f) == {q \in DOMAIN f : HasPrefix(q, BackupDir \o <<"/">>)}

Rest(q) == SubSeq(q, Len(BackupDir) + 2, Len(q))

Slashes(r) == {k \in 1..Len(r) : r[k] = "/"}

RegularFiles(f) == {Rest(q) : q \in {u \in UnderDir(f) : Slashes(Rest(u)) = {}}}

IsArchiveName(name) ==
    HasSuffix(name, ExtTar) \/ HasSuffix(name, ExtTarGz) \/ HasSuffix(name, ExtTgz)

\* A listing that keeps only the archives that have a sidecar file.
TarFilesWithSidecar(f) ==
    {name \in RegularFiles(f) :
        IsArchiveName(name) /\ Exists(f, Join(BackupDir, name \o ExtJson))}

\* The keys of tarFiles
TarFiles(f) == {name \in RegularFiles(f) : IsArchiveName(name)}

\* The keys of metaFiles: the sidecars that open and decode, less ".json"
MetaFiles(f, locked) ==
    {TrimSuffix(name, ExtJson) :
        name \in {m \in RegularFiles(f) :
                     /\ ~IsArchiveName(m)
                     /\ HasSuffix(m, ExtJson)
                     /\ Join(BackupDir, m) \notin locked
                     /\ DecodeInfo(f[Join(BackupDir, m)]).ok}}

\* A lookup that takes any sidecar whose name less ".json" begins the
\* archive's name.
EntryLooseMatch(f, locked, name) ==
    LET near == {key \in MetaFiles(f, locked) : HasPrefix(name, key)}
        key == CHOOSE c \in near : TRUE
        meta == DecodeInfo(f[Join(BackupDir, key \o ExtJson)]).info
    IN IF near # {}
       THEN [name |-> name, size |-> Len(f[Join(BackupDir, name)]),
             enriched |-> TRUE, image |-> meta.image_name, tags |-> meta.tags]
       ELSE [name |-> name, size |-> Len(f[Join(BackupDir, name)]),
             enriched |-> FALSE, image |-> <<>>, tags |-> <<>>]

\* What the loop over tarFiles prints for one archive.
Entry(f, locked, name) ==
    LET meta == DecodeInfo(f[Join(BackupDir, name \o ExtJson)]).info
    IN IF name \in MetaFiles(f, locked)
       THEN [name |-> name, size |-> Len(f[Join(BackupDir, name)]),
             enriched |-> TRUE, image |-> meta.image_name, tags |-> meta.tags]
       ELSE [name |-> name, size |-> Len(f[Join(BackupDir, name)]),
             enriched |-> FALSE, image |-> <<>>, tags |-> <<>>]

\* The orders a range over a map may take.
Orders(S) ==
    {o \in [1..Cardinality(S) -> S] :
        \A a, b \in 1..Cardinality(S) : a # b => o[a] # o[b]}

\* runList, whole: the directory is missing, cannot be read, holds no
\* archive, or is listed.
RunList ==
    /\ mainpc = "resolve"
    /\ cmd = "list"
    /\ \E dir \in {"missing", "unreadable", "ok"} :
          \/ /\ dir = "missing"
             /\ fs = EmptyDir
             /\ mainpc' = "done"
             /\ report' = "Backup directory does not exist"
             /\ UNCHANGED listing
          \/ /\ dir = "unreadable"
             /\ mainpc' = "fatal"
             /\ UNCHANGED <<report, listing>>
          \/ /\ dir = "ok"
             /\ TarFiles(fs) = {}
             /\ mainpc' = "done"
             /\ report' = "No backups found"
             /\ UNCHANGED listing
          \/ /\ dir = "ok"
             /\ TarFiles(fs) # {}
             /\ mainpc' = "done"
             /\ report' = "Available Docker image backups:"
             /\ \E o \in Orders(TarFiles(fs)) :
                   listing' = [k \in 1..Len(o) |-> Entry(fs, unreadable, o[k])]
    /\ shown' = IF mainpc' = "done" THEN Append(shown, listing') ELSE shown
    /\ UNCHANGED <<cmd, input, items, config, idx, wg, semaphore, wpc, invoked,
                   outcome, tarballName, wrote, fs, lastWriter, writersSince, now, compressed, hung,
                   unreadable, notices>>

\* The list command is run once more on the directory as it is.
ListAgain ==
    /\ cmd = "list"
    /\ mainpc = "done"
    /\ Len(shown) < MaxListings
    /\ mainpc' = "resolve"
    /\ listing' = <<>>
    /\ report' = ""
    /\ UNCHANGED <<cmd, input, shown, items, config, idx, wg, semaphore, wpc,
                   invoked, outcome, tarballName, wrote, fs, lastWriter,
                   writersSince, now, compressed, hung, unreadable, notices>>


\* ------------------------------------------------------- the specifications
\* The dispatch loop and the goroutine frame of runBackup and runRestore
Dispatch ==
    \/ Resolve
    \/ Add
    \/ Acquire
    \/ Wait
    \/ \E i \in Slots : TaskBegin(i)
    \/ \E i \in Slots : Release(i)
    \/ \E i \in Slots : Done(i)

BackupStep ==
    \/ \E i \in Slots : Inspect(i)
    \/ \E i \in Slots : SaveOpen(i)
    \/ \E i \in Slots : SaveWrite(i)
    \/ \E i \in Slots : SaveFail(i)
    \/ \E i \in Slots : CreateSidecar(i)
    \/ \E i \in Slots : EncodeSidecar(i)

RestoreStep ==
    \/ \E i \in Slots : Detect(i)
    \/ \E i \in Slots : Load(i)

Next == Dispatch \/ BackupStep \/ RestoreStep \/ RunList \/ ListAgain

\* Every command
Spec == Init /\ [][Next]_vars

\* The backup command alone
NextBackup == Dispatch \/ BackupStep

SpecBackup == InitBackup /\ [][NextBackup]_vars

\* The backup command on image names of every shape
SpecNaming == InitNaming /\ [][NextBackup]_vars

\* Both batch commands on every combination of input sources
NextResolve == Dispatch \/ BackupStep \/ RestoreStep

SpecResolve == InitResolve /\ [][NextResolve]_vars

\* The restore command alone
NextRestore == Dispatch \/ RestoreStep

SpecRestore == InitRestore /\ [][NextRestore]_vars

\* The list command alone
NextList == RunList \/ ListAgain

SpecList == InitList /\ [][NextList]_vars

\* The main goroutine's steps
MainStep == Resolve \/ Add \/ Acquire \/ Wait

\* The steps of entry i's goroutine and of the external process it waits for
ItemStep(i) ==
    \/ TaskBegin(i) \/ Release(i) \/ Done(i)
    \/ Inspect(i) \/ SaveOpen(i) \/ SaveWrite(i) \/ SaveFail(i)
    \/ CreateSidecar(i) \/ EncodeSidecar(i)
    \/ Detect(i) \/ Load(i)

NextHang == MainStep \/ \E i \in Slots : ItemStep(i)

\* Backup and restore batches in which some external processes never
\* return.  The Go scheduler runs every goroutine that can run, and an
\* external process that is not hung goes on until it exits.
SpecHang ==
    /\ InitHang
    /\ [][NextHang]_vars
    /\ WF_vars(MainStep)
    /\ \A i \in Slots : WF_vars(ItemStep(i))

\* ------------------------------------------------------------------ claims
Failures ==
    {"inspect failed", "save failed", "metadata create failed",
     "metadata write failed", "load failed"}

\* Positions at which the entry's task has been entered and has not returned.
InTask == {"inspect", "save", "write", "encode", "detect", "load"}

\* Positions at which the entry's task has returned.
Returned == {"ret", "released", "finished"}

InFlight == {i \in Slots : wpc[i] \in InTask}

\* C1: the dispatch loop enters the per-item task exactly once per list
\* entry, never for a position outside the list, and wg.Wait is passed only
\* when each of the N tasks has been entered once and has returned.
C1_OncePerEntryThenJoin ==
    /\ \A i \in Slots : invoked[i] <= 1 /\ (i > N => invoked[i] = 0)
    /\ mainpc = "done" =>
          \A i \in 1..N : invoked[i] = 1 /\ wpc[i] \in Returned

\* C1 witness: a full-length list went through a single slot and the join
\* was passed.
C1_Witness ==
    /\ mainpc = "done"
    /\ N = MaxItems
    /\ config.MaxWorkers = 1
    /\ \A i \in 1..N : invoked[i] = 1

\* C2: at no time are more tasks entered and not yet returned than
\* config.MaxWorkers.
C2_InFlightBounded == Cardinality(InFlight) <= config.MaxWorkers

\* C2 witness: the pool is full of running tasks while the dispatcher waits
\* for a slot with a further entry.
C2_Witness ==
    /\ mainpc = "acquire"
    /\ config.MaxWorkers >= 1
    /\ Cardinality(InFlight) = config.MaxWorkers

\* C3: once an entry has reported a failure, the batch still cannot stop
\* short of the join, and at the join every entry of the list has been
\* entered once and has reported an outcome of its own.
C3_FailureIsolated ==
    \A i \in 1..N :
        outcome[i] \in Failures =>
            /\ mainpc # "done" => ENABLED Next
            /\ mainpc = "done" =>
                  \A j \in 1..N :
                      invoked[j] = 1 /\ outcome[j] \in Failures \cup {"ok"}

\* C3 witness: with one slot, the first entry failed before the second was
\* started, and the second succeeded.
C3_Witness ==
    /\ mainpc = "done"
    /\ N = 2
    /\ config.MaxWorkers = 1
    /\ outcome[1] \in Failures
    /\ outcome[2] = "ok"

\* The last characters of a path, read off without the model's suffix test.
EndsIn(path, a, b, c) ==
    /\ Len(path) >= 3
    /\ path[Len(path) - 2] = a
    /\ path[Len(path) - 1] = b
    /\ path[Len(path)] = c

GzipSuffix(path) ==
    \/ EndsIn(path, ".", "g", "z") /\ EndsIn(SubSeq(path, 1, Len(path) - 3), "t", "a", "r")
    \/ EndsIn(path, "t", "g", "z") /\ Len(path) >= 4 /\ path[Len(path) - 3] = "."

\* The sidecar of a path is one of the well-formed documents, and readable.
UsableSidecar(path) ==
    /\ MetadataPath(path) \in DOMAIN fs
    /\ MetadataPath(path) \notin unreadable
    /\ fs[MetadataPath(path)] \in {SidecarOfKind(kind) : kind \in {"gzip", "none", "odd"}}

\* The compress_type member as written in a well-formed sidecar.
Declared(path) == fs[MetadataPath(path)][Len(fs[MetadataPath(path)])].val

\* C4: once restoreImage has chosen, the gzip path is taken for a path in
\* .tar.gz or .tgz whatever the sidecar; otherwise, with a sidecar that
\* exists, opens and parses, exactly when it declares gzip; otherwise not.
C4_DetectionPriority ==
    \A i \in 1..N :
        (cmd = "restore" /\ wpc[i] \in {"load"} \cup Returned) =>
            compressed[i] =
                IF GzipSuffix(items[i]) THEN TRUE
                ELSE IF UsableSidecar(items[i]) THEN Declared(items[i]) = "gzip"
                ELSE FALSE

\* C4 witness: in a directory whose sidecars all declare none, the .tar.gz
\* path went the gzip way and the .tar path did not.
C4_Witness ==
    /\ cmd = "restore"
    /\ N = 2
    /\ fs = DirOfKind("none")
    /\ unreadable = {}
    /\ items[1] = Join(BackupDir, <<"x">> \o ExtTarGz)
    /\ items[2] = Join(BackupDir, <<"x">> \o ExtTar)
    /\ wpc[1] \in Returned /\ compressed[1]
    /\ wpc[2] \in Returned /\ ~compressed[2]

\* C5: whenever backupImage has succeeded for an entry, restoreImage's choice
\* for the archive path that entry produced, made on the directory as it
\* then is or later becomes, is the gzip path exactly when the backup ran
\* with compress type gzip.
C5_RoundTrip ==
    cmd = "backup" =>
        \A i \in 1..N :
            outcome[i] = "ok" =>
                (DetectCompressed(fs, unreadable, tarballName[i])
                    <=> config.CompressType = "gzip")

\* C5 witness: two entries were backed up with gzip and the batch is over;
\* the first one's archive would be restored through gunzip.
C5_Witness ==
    /\ cmd = "backup"
    /\ mainpc = "done"
    /\ N = 2
    /\ config.CompressType = "gzip"
    /\ outcome[1] = "ok" /\ outcome[2] = "ok"
    /\ DetectCompressed(fs, unreadable, tarballName[1])

\* The archive a sidecar path belongs to.
Sibling(metadataPath) ==
    SubSeq(metadataPath, 1, Len(metadataPath) - Len(ExtJson))

\* C6: in a backup directory, every sidecar that parses lies next to its
\* archive, declares gzip exactly when every block of that archive came
\* through gzip (otherwise every block came raw), and the archive's name
\* ends in .gz exactly when the sidecar declares gzip.
C6_SidecarAgreesWithArchive ==
    cmd = "backup" =>
        \A m \in Sidecars(fs) :
            DecodeInfo(fs[m]).ok =>
                LET gz == DecodeInfo(fs[m]).info.compress_type = "gzip"
                    a == Sibling(m)
                IN /\ a \in DOMAIN fs
                   /\ \A k \in 1..Len(fs[a]) :
                         fs[a][k].enc # "zero" => (fs[a][k].enc = "gzip" <=> gz)
                   /\ EndsIn(a, ".", "g", "z") <=> gz

\* C6 witness: this invocation wrote a whole gzip archive and the sidecar
\* that declares it, next to the raw archive and sidecar of an earlier one.
C6_Witness ==
    /\ cmd = "backup"
    /\ mainpc = "done"
    /\ \E i \in 1..N :
          LET a == tarballName[i]
              m == MetadataPath(a)
          IN /\ outcome[i] = "ok"
             /\ Len(fs[a]) = ArchiveChunks
             /\ \A k \in 1..Len(fs[a]) : fs[a][k].by = <<1, i>> /\ fs[a][k].enc = "gzip"
             /\ \A k \in 1..Len(fs[m]) : fs[m][k].by = <<1, i>>
             /\ DecodeInfo(fs[m]).info.compress_type = "gzip"
    /\ \E m \in Sidecars(fs) :
          DecodeInfo(fs[m]).ok /\ DecodeInfo(fs[m]).info.compress_type = "none"

\* A path names a file directly in the backup directory.
DirectChild(path) ==
    /\ Len(path) > Len(BackupDir) + 1
    /\ \A k \in 1..Len(BackupDir) : path[k] = BackupDir[k]
    /\ \A k \in (Len(BackupDir) + 1)..Len(path) :
          path[k] = "/" <=> k = Len(BackupDir) + 1

TarSuffix(path) ==
    EndsIn(path, "t", "a", "r") /\ Len(path) >= 4 /\ path[Len(path) - 3] = "."

\* The archive files of the directory, read off the paths.
ArchivePaths == {q \in DOMAIN fs : DirectChild(q) /\ (TarSuffix(q) \/ GzipSuffix(q))}

\* A file holds one whole JSON object and nothing else.
WholeDocument(content) ==
    /\ Len(content) >= 1
    /\ content[1].open
    /\ \A k \in 1..Len(content) : content[k].close <=> k = Len(content)

\* A file holds no complete JSON object.
NoDocument(content) == \A k \in 1..Len(content) : ~content[k].close

\* The values of the tags members of a whole document, in order.
TagsOf(content) ==
    LET at == {k \in 1..Len(content) : content[k].key = "tags"}
    IN [j \in 1..Cardinality(at) |-> content[Min(at) + j - 1].val]

SidecarFailures == {"metadata create failed", "metadata write failed"}

\* Everything one successful save of entry i writes.
WholeArchive(i) ==
    [k \in 1..ArchiveChunks |->
       [by |-> <<1, i>>, img |-> items[i],
        enc |-> IF config.CompressType = "gzip" THEN "gzip" ELSE "raw", k |-> k]]

\* No other entry of the batch has computed the archive path of entry i.
Alone(i) == \A j \in 1..N : j # i => tarballName[j] # tarballName[i]

\* In a state: an entry that failed in its save or sidecar step has
\* returned; after a failed save no cell of its sidecar is the entry's;
\* after a failed sidecar step its archive is on disk, and, when no other
\* entry shares the path, holds what the entry's save wrote (everything, for
\* a save without gzip) while the sidecar is missing, left from an earlier
\* invocation, or holds no complete document.
C8_Left ==
    cmd = "backup" =>
        \A i \in 1..N :
            LET a == tarballName[i]
                m == MetadataPath(a)
            IN /\ outcome[i] \in SidecarFailures \cup {"save failed"} =>
                     wpc[i] \in Returned
               /\ (outcome[i] = "save failed" /\ m \in DOMAIN fs) =>
                     \A k \in 1..Len(fs[m]) : fs[m][k].by # <<1, i>>
               /\ outcome[i] \in SidecarFailures =>
                     /\ a \in DOMAIN fs
                     /\ Alone(i) =>
                           /\ Len(fs[a]) <= ArchiveChunks
                           /\ fs[a] = SubSeq(WholeArchive(i), 1, Len(fs[a]))
                           /\ config.CompressType = "none" =>
                                 fs[a] = WholeArchive(i)
                           /\ m \in DOMAIN fs =>
                                 \/ NoDocument(fs[m])
                                 \/ \A k \in 1..Len(fs[m]) : fs[m][k].by[1] = 0

\* In a step: no file disappears; the step in which an entry's save or
\* sidecar creation fails changes no file, and the step in which its
\* sidecar encoding fails changes no file but that sidecar.
C8_Kept ==
    cmd = "backup" =>
        /\ \A p \in DOMAIN fs : p \in DOMAIN fs'
        /\ \A i \in 1..N :
              (outcome[i] = "none" /\ outcome'[i] \in SidecarFailures \cup {"save failed"}) =>
                  \A p \in DOMAIN fs :
                      \/ fs'[p] = fs[p]
                      \/ /\ outcome'[i] = "metadata write failed"
                         /\ p = MetadataPath(tarballName[i])

\* C8: a backup entry that fails in its save step or in creating or
\* encoding its sidecar undoes nothing: the failing step removes and
\* empties no file, no later step removes one, a failed save is followed by
\* no sidecar write of that entry, a failed sidecar step leaves the written
\* archive on disk without a sidecar of this invocation that parses, and the
\* entry has returned with its failure reported.
C8_NoRollback == []C8_Left /\ [][C8_Kept]_vars

\* C8 witness: at the end of a batch one entry's save had failed after one
\* block, which is still there without sidecar, and another entry's sidecar
\* could not be created, its whole archive being there without sidecar.
C8_Witness ==
    /\ cmd = "backup"
    /\ mainpc = "done"
    /\ \E i, j \in 1..N :
          /\ outcome[i] = "save failed"
          /\ tarballName[i] \in DOMAIN fs
          /\ Len(fs[tarballName[i]]) = 1
          /\ fs[tarballName[i]][1].by = <<1, i>>
          /\ MetadataPath(tarballName[i]) \notin DOMAIN fs
          /\ outcome[j] = "metadata create failed"
          /\ fs[tarballName[j]] = WholeArchive(j)
          /\ MetadataPath(tarballName[j]) \notin DOMAIN fs

\* The mark entry i (0: an earlier invocation) leaves on what it writes.
ByOf(i) == IF i = 0 THEN <<0, 1>> ELSE <<1, i>>

\* The files entry i computed: its archive and its sidecar.
PathsOf(i) == {tarballName[i], MetadataPath(tarballName[i])}

\* Files only ever written by entries that computed their path.
C9_OwnFilesOnly ==
    \A p \in DOMAIN fs :
        /\ \A i \in writersSince[p] \ {0} : p \in PathsOf(i)
        /\ \A k \in 1..Len(fs[p]) :
              \A i \in 1..N : fs[p][k].by = <<1, i>> => p \in PathsOf(i)

\* C9 as stated: at the end of a backup batch every file written by the
\* batch holds only what its last writer wrote, and no entry wrote a file
\* of a path it did not compute.  (Archives are looked at under gzip, where
\* the shell's redirection of the source's command line writes them.)
C9_LastWriterWins ==
    (cmd = "backup" /\ mainpc = "done") =>
        /\ C9_OwnFilesOnly
        /\ \A p \in DOMAIN fs :
              (/\ lastWriter[p] # 0
               /\ config.CompressType = "gzip" \/ EndsIn(p, "s", "o", "n")) =>
                  \A k \in 1..Len(fs[p]) : fs[p][k].by = ByOf(lastWriter[p])

\* C9, amended: entries that compute the same path write the same files
\* unguarded; every block of a file on disk is one written, since the file
\* was last truncated, by an entry that computed that path, at the offset
\* it was written to, and a gap is only left between two writers; so the
\* file is wholly the last writer's when no other entry wrote it since it
\* was last truncated.  No entry writes a file of a path it did not compute.
C9_SharedPathRace ==
    cmd = "backup" =>
        /\ C9_OwnFilesOnly
        /\ \A p \in DOMAIN fs :
              /\ lastWriter[p] \in writersSince[p]
              /\ \A k \in 1..Len(fs[p]) :
                    \/ \E i \in writersSince[p] : fs[p][k].by = ByOf(i)
                    \/ fs[p][k] = Hole /\ Cardinality(writersSince[p]) >= 2
              /\ ~EndsIn(p, "s", "o", "n") =>
                    \A k \in 1..Len(fs[p]) : fs[p][k] # Hole => fs[p][k].k = k
              /\ writersSince[p] = {lastWriter[p]} =>
                    \A k \in 1..Len(fs[p]) : fs[p][k].by = ByOf(lastWriter[p])

\* C9 witness: two entries computed the same path, both succeeded, and at
\* the end of the batch the sidecar starts with the document of the one
\* that wrote last and ends with a member the other wrote.
C9_Witness ==
    /\ cmd = "backup"
    /\ mainpc = "done"
    /\ N = 2
    /\ tarballName[1] = tarballName[2]
    /\ outcome[1] = "ok" /\ outcome[2] = "ok"
    /\ LET m == MetadataPath(tarballName[1])
       IN /\ writersSince[m] = {1, 2}
          /\ fs[m][1].by = ByOf(lastWriter[m])
          /\ fs[m][Len(fs[m])].by # ByOf(lastWriter[m])

\* Entry i waits for an external process that never returns.
Stuck(i) == i \in hung /\ wpc[i] \in {"write", "load"}

StuckSet == {i \in 1..N : Stuck(i)}

\* The batch has come to rest around its hung entries: every other entry
\* has finished, and the slots held are those of the stuck entries, one each.
C10_Rest ==
    /\ \A i \in 1..N : wpc[i] = "finished" \/ Stuck(i)
    /\ semaphore = Cardinality(StuckSet)

\* C10: an entry stuck on its external process stays stuck; and in a
\* started batch in which fewer entries can hang than there are slots, from
\* some point on every entry that is not stuck has finished and the stuck
\* entries hold one slot each and no other slot is held.
C10_HangHoldsOneSlot ==
    /\ [][\A i \in Slots : Stuck(i) => Stuck(i)']_vars
    /\ (mainpc = "add" /\ Cardinality(hung) < config.MaxWorkers) ~> []C10_Rest

\* C10 witness: with two slots, the first of two entries hangs in its
\* external process and the second has finished beside it.
C10_Witness ==
    /\ N = 2
    /\ config.MaxWorkers = 2
    /\ hung = {1}
    /\ Stuck(1)
    /\ wpc[2] = "finished"
    /\ semaphore = 1
    /\ mainpc = "wait"

\* Nothing of a batch has happened: no goroutine was started, no task
\* entered, no slot taken, no file opened or written, no notice printed.
NothingStarted ==
    /\ \A i \in Slots : wpc[i] = "idle" /\ invoked[i] = 0 /\ outcome[i] = "none"
    /\ wg = 0 /\ semaphore = 0 /\ idx = 1
    /\ \A p \in DOMAIN fs : lastWriter[p] = 0 /\ writersSince[p] = {0}
    /\ notices = 0

C11_State ==
    cmd \in {"backup", "restore"} =>
        /\ mainpc = "fatal" => NothingStarted
        /\ (N = 0 /\ mainpc # "resolve") => mainpc = "fatal"
        /\ mainpc \in {"add", "acquire", "wait", "done"} => N >= 1

\* The state a step starts in is not one after log.Fatal.
C11_NotAfterFatal == cmd \in {"backup", "restore"} => mainpc # "fatal"

\* C11: a backup or restore that ended on log.Fatal has started nothing and
\* written nothing, and takes no further step; an empty list always ends
\* that way, and the dispatch loop is only reached with a non-empty list.
C11_FatalBeforeAnyWorker ==
    []C11_State /\ [][C11_NotAfterFatal]_vars

\* C11 witness: a backup with a full list ended before its loop because the
\* directory or the engine client could not be set up.
C11_Witness ==
    /\ cmd = "backup"
    /\ N = MaxItems
    /\ mainpc = "fatal"
    /\ NothingStarted

\* Every entry's goroutine has run to its end.
AllFinished == \A i \in 1..N : wpc[i] = "finished"

\* C12: in a backup or restore batch the notice is printed at most once,
\* it has been printed exactly when the command has ended normally, and
\* then every entry's goroutine had run to its end; once every goroutine
\* has, the join can be passed whatever the entries reported; and a
\* command in which an entry reported a failure has not ended on a fatal
\* error.
C12_NoticeWhateverTheOutcomes ==
    cmd \in {"backup", "restore"} =>
        /\ notices <= 1
        /\ notices = 1 <=> mainpc = "done"
        /\ mainpc = "done" => AllFinished
        /\ (mainpc = "wait" /\ AllFinished) => ENABLED Wait
        /\ (\E i \in 1..N : outcome[i] \in Failures) =>
              mainpc \in {"add", "acquire", "wait", "done"}

\* C12 witness: a batch of which every entry failed has ended normally with
\* its one notice.
C12_Witness ==
    /\ cmd \in {"backup", "restore"}
    /\ N = MaxItems
    /\ \A i \in 1..N : outcome[i] \in Failures
    /\ mainpc = "done"
    /\ notices = 1

\* The file name of a computed archive path, less the directory.
Leaf(i) == SubSeq(tarballName[i], Len(BackupDir) + 2, Len(tarballName[i]))

\* C13: the file name backupImage computes for an entry holds no "/" and
\* no ":"; it starts with the entry's characters in their places, each "/"
\* and ":" turned into "_" and every other character as it was.
C13_LeafSanitized ==
    \A i \in 1..N :
        (cmd = "backup" /\ tarballName[i] # <<>>) =>
            /\ \A k \in 1..Len(Leaf(i)) : Leaf(i)[k] \notin {"/", ":"}
            /\ Len(Leaf(i)) > Len(items[i])
            /\ \A k \in 1..Len(items[i]) :
                  Leaf(i)[k] = IF items[i][k] \in {"/", ":"}
                               THEN "_" ELSE items[i][k]

\* C13 witness: the name computed for an image whose name holds a colon, a
\* slash and an underscore of its own.
C13_Witness ==
    /\ cmd = "backup"
    /\ N = 1
    /\ items[1] = <<":", "/", "_">>
    /\ tarballName[1] # <<>>
    /\ SubSeq(Leaf(1), 1, 4) = <<"_", "_", "_", "-">>

\* A line less its leading blanks, and less its trailing blanks.
RECURSIVE DropLeading(_)
DropLeading(line) ==
    IF line # <<>> /\ Head(line) = " " THEN DropLeading(Tail(line)) ELSE line

RECURSIVE DropTrailing(_)
DropTrailing(line) ==
    IF line # <<>> /\ line[Len(line)] = " "
    THEN DropTrailing(SubSeq(line, 1, Len(line) - 1)) ELSE line

\* The trimmed lines that are not blank, in the order of the lines.
RECURSIVE Kept(_)
Kept(lines) ==
    IF lines = <<>> THEN <<>>
    ELSE LET t == DropTrailing(DropLeading(Head(lines)))
         IN IF t = <<>> THEN Kept(Tail(lines)) ELSE <<t>> \o Kept(Tail(lines))

Resolved == mainpc # "resolve"

\* C14: the list of items comes from standard input when --stdin is given,
\* else from the file when --file is non-empty, else from the arguments;
\* from standard input or the file it is the trimmed non-blank lines in
\* order, and the lower sources are ignored; a chosen source that cannot
\* be read or yields no item ends the process with a fatal error instead
\* of falling through to a lower source.
C14_SourcePrecedence ==
    (cmd \in {"backup", "restore"} /\ Resolved) =>
        /\ input.stdin =>
              /\ items = Kept(input.stdinLines)
              /\ (Kept(input.stdinLines) = <<>> \/ ~input.readOK)
                     => mainpc = "fatal"
        /\ (~input.stdin /\ input.file # <<>>) =>
              /\ input.fileOK => items = Kept(input.fileLines)
              /\ (~input.fileOK \/ Kept(input.fileLines) = <<>>
                                \/ ~input.readOK) => mainpc = "fatal"
        /\ (~input.stdin /\ input.file = <<>>) =>
              /\ items = input.args
              /\ input.args = <<>> => mainpc = "fatal"
        /\ mainpc # "fatal" => N >= 1

\* --stdin, --file and arguments all given and all naming items: the batch
\* ran on the one padded line of standard input, the blank one dropped.
C14_Witness ==
    /\ cmd = "restore"
    /\ input.stdin /\ input.file # <<>> /\ input.fileOK /\ input.readOK
    /\ input.stdinLines =
          <<(<<" ">>), <<" ">> \o SourceNames(cmd).stdin \o <<" ">> >>
    /\ Kept(input.fileLines) # <<>>
    /\ input.args # <<>>
    /\ items = <<SourceNames(cmd).stdin>>
    /\ mainpc = "done"
\* The entry that takes the step.
Actor(i) == wpc'[i] # wpc[i] \/ wrote'[i] # wrote[i]

\* The files the step creates or changes.
Changed == {p \in DOMAIN fs' : p \notin DOMAIN fs \/ fs'[p] # fs[p]}

IsSidecarPath(p) == HasSuffix(p, ExtJson)

\* Nothing in the directory carries the mark of entry i in a file chosen
\* by keep, and entry i is not recorded as a writer of such a file.
NoTrace(i, keep(_)) ==
    \A p \in DOMAIN fs :
        keep(p) => /\ lastWriter[p] # i
                   /\ i \notin writersSince[p]
                   /\ \A k \in 1..Len(fs[p]) : fs[p][k].by # <<1, i>>

AnyPath(p) == TRUE

C15_State ==
    \A i \in 1..N :
        /\ wpc[i] \in {"idle", "spawned", "inspect"} =>
              tarballName[i] = <<>> /\ NoTrace(i, AnyPath)
        /\ outcome[i] = "inspect failed" =>
              tarballName[i] = <<>> /\ NoTrace(i, AnyPath)
        /\ wpc[i] \in {"save", "write"} =>
              tarballName[i] # <<>> /\ NoTrace(i, IsSidecarPath)
        /\ outcome[i] = "save failed" => NoTrace(i, IsSidecarPath)

\* The order of the positions of one entry's pipeline.
C15_Order(i) ==
    /\ wpc[i] = "inspect" => wpc'[i] \in {"inspect", "save", "ret"}
    /\ wpc[i] = "save" => wpc'[i] \in {"save", "write", "ret"}
    /\ wpc[i] = "write" => wpc'[i] \in {"write", "encode", "ret"}
    /\ wpc[i] = "encode" => wpc'[i] \in {"encode", "ret"}
    /\ (wpc'[i] = "save" /\ wpc[i] # "save") =>
          outcome'[i] = "none" /\ tarballName'[i] # <<>>
    /\ (wpc'[i] = "write" /\ wpc[i] # "write") => outcome'[i] = "none"
    /\ (wpc'[i] = "encode" /\ wpc[i] # "encode") => outcome'[i] = "none"
    /\ (wpc[i] # "inspect") => tarballName'[i] = tarballName[i]

C15_Step ==
    /\ \A i \in 1..N : C15_Order(i)
    /\ (Changed # {} \/ lastWriter' # lastWriter) =>
          \E i \in 1..N :
             /\ Actor(i)
             /\ \A j \in 1..N : Actor(j) => j = i
             /\ \/ /\ wpc[i] \in {"save", "write"}
                   /\ wpc'[i] = "write"
                   /\ Changed \subseteq {tarballName[i]}
                \/ /\ wpc[i] = "write"
                   /\ wpc'[i] = "encode"
                   /\ Changed \subseteq {MetadataPath(tarballName[i])}
                \/ /\ wpc[i] = "encode"
                   /\ Changed \subseteq {MetadataPath(tarballName[i])}

\* C15: within one backup entry the stages run in the order inspect, name,
\* save, write sidecar, each only when the one before it succeeded: the
\* archive path is written only by an entry whose inspection succeeded,
\* the sidecar is created only in the step in which the save has returned
\* success, an entry whose inspection failed has touched no file and an
\* entry whose save failed has touched no sidecar.
C15_StagesInOrder == []C15_State /\ [][C15_Step]_vars

\* Two entries with files of their own: the first got a block into its
\* archive before its save failed, the second went through every stage.
C15_Witness ==
    /\ cmd = "backup" /\ N = 2 /\ mainpc = "done"
    /\ tarballName[1] # tarballName[2]
    /\ outcome[1] = "save failed"
    /\ tarballName[1] \in DOMAIN fs
    /\ \E k \in 1..Len(fs[tarballName[1]]) : fs[tarballName[1]][k].by = <<1, 1>>
    /\ MetadataPath(tarballName[1]) \notin DOMAIN fs
    /\ outcome[2] = "ok"
    /\ {tarballName[2], MetadataPath(tarballName[2])} \subseteq DOMAIN fs
    /\ fs[tarballName[2]] = WholeArchive(2)
    /\ fs[MetadataPath(tarballName[2])] =
          Stamp(EncodeInfo(ImageInfo(items[2], config.CompressType)), <<1, 2>>)
\* Entries that were dispatched and have not released their slot.
Holding == {i \in 1..N : wpc[i] \in {"spawned", "ret"} \cup InTask}

C16_State ==
    /\ semaphore = Cardinality(Holding)
    /\ semaphore <= config.MaxWorkers
    /\ mainpc = "done" => semaphore = 0
    /\ \A i \in 1..N :
          wpc[i] = "ret" => outcome[i] \in Failures \cup {"ok"}

C16_Step ==
    /\ \A i \in 1..N :
          /\ wpc[i] = "ret" => wpc'[i] \in {"ret", "released"}
          /\ wpc[i] = "released" => wpc'[i] \in {"released", "finished"}
          /\ wpc[i] = "finished" => wpc'[i] = "finished"
          /\ (wpc[i] = "ret" /\ wpc'[i] = "released") =>
                semaphore' = semaphore - 1
    /\ semaphore' < semaphore =>
          \E i \in 1..N : wpc[i] = "ret" /\ wpc'[i] = "released"
    /\ semaphore' > semaphore =>
          /\ semaphore' = semaphore + 1
          /\ idx <= N /\ wpc[idx] = "idle" /\ wpc'[idx] = "spawned"

\* C16: the slot acquired for an entry is released exactly once, when the
\* entry's pipeline has finished, on success and on every failure path
\* alike; the occupied slots are at every moment as many as the entries
\* dispatched and not yet released, never more than the worker limit, and
\* none once the join barrier is passed.
C16_SlotsBalanced == []C16_State /\ [][C16_Step]_vars

\* Two slots: the first entry failed and gave its slot back while the
\* second is still in its task and holds the only occupied slot.
C16_Witness ==
    /\ N = 2 /\ config.MaxWorkers = 2
    /\ outcome[1] \in Failures /\ wpc[1] = "released"
    /\ wpc[2] \in InTask
    /\ semaphore = 1
C17_Step ==
    /\ DOMAIN fs \subseteq DOMAIN fs'
    /\ cmd \in {"restore", "list"} =>
          fs' = fs /\ lastWriter' = lastWriter /\ writersSince' = writersSince

\* C17: a restore and a listing leave every file of the directory as it
\* was, creating, changing and removing none; and no step of a backup, a
\* restore or a listing removes a file, so the set of file names in the
\* backup directory never shrinks.
C17_NothingRemoved == [][C17_Step]_vars

\* A restore that loaded a gzip archive and ended with the directory it
\* was given, every archive and sidecar in place.
C17_Witness ==
    /\ cmd = "restore" /\ N >= 1 /\ mainpc = "done"
    /\ outcome[1] = "ok" /\ compressed[1]
    /\ fs = DirOfKind("gzip")
\* C18: the list command presents its entries in a deterministic order:
\* listing the same directory contents twice yields the same sequence of
\* entries.
C18_SameOrderEachTime ==
    cmd = "list" =>
        \A a, b \in 1..Len(shown) : shown[a] = shown[b]

\* What does hold of two listings of one directory: the same entries,
\* each once, in whatever order.
C18_SameEntriesEachTime ==
    cmd = "list" =>
        \A a, b \in 1..Len(shown) :
            /\ Len(shown[a]) = Len(shown[b])
            /\ {shown[a][k] : k \in 1..Len(shown[a])}
                  = {shown[b][k] : k \in 1..Len(shown[b])}

\* Two listings of the directory of every sort of entry, the second in
\* another order than the first.
C18_Witness ==
    /\ cmd = "list" /\ fs = MixedDir /\ mainpc = "done"
    /\ Len(shown) = 2
    /\ shown[1] # shown[2]
    /\ Len(shown[1]) = Cardinality(TarFiles(fs))
\* The dispatcher stands at its first send on the gate and nothing else
\* has happened.
BlockedAtFirstSlot ==
    /\ mainpc \in {"add", "acquire"}
    /\ idx = 1 /\ semaphore = 0 /\ notices = 0
    /\ \A i \in Slots : wpc[i] = "idle" /\ invoked[i] = 0

C19_Started == mainpc \notin {"resolve", "fatal"}

C19_ZeroBlocks == (C19_Started /\ config.MaxWorkers = 0) => BlockedAtFirstSlot

C19_Completed == mainpc = "done" /\ notices = 1 /\ AllFinished

\* C19: when no external process hangs, a started batch with a worker
\* limit of one or more passes the join barrier and prints its completion
\* notice; with a worker limit of zero a started batch (its list is not
\* empty) stays for ever at the first acquisition of a slot: no task is
\* entered and the batch never completes.
C19_TerminatesUnlessZeroWorkers ==
    /\ (C19_Started /\ hung = {} /\ config.MaxWorkers >= 1) ~> C19_Completed
    /\ []C19_ZeroBlocks
    /\ (C19_Started /\ config.MaxWorkers = 0) ~> [](mainpc = "acquire")

\* No slot to give and two entries to dispatch: the counter was raised for
\* the first entry and the dispatcher is at its send.
C19_Witness ==
    /\ config.MaxWorkers = 0 /\ N = 2
    /\ mainpc = "acquire" /\ wg = 1
    /\ BlockedAtFirstSlot
    /\ ~ENABLED Acquire
\* Entries before position i that have given their slot back.
ReleasedBefore(i) == {j \in 1..(i - 1) : wpc[j] \in {"released", "finished"}}

\* C20: entries are admitted in the order of the list by the dispatching
\* goroutine, which takes the slot before it starts the entry's goroutine:
\* the task of the entry at position i (counted from 1) is not entered
\* before the slot of every earlier entry was taken, and when i exceeds
\* the worker limit not before at least i minus the worker limit earlier
\* entries have released their slots.
C20_AdmittedInOrder ==
    cmd \in {"backup", "restore"} =>
        /\ \A i \in 1..N : wpc[i] # "idle" <=> i < idx
        /\ \A i \in 1..N :
              invoked[i] >= 1 =>
                 /\ \A j \in 1..(i - 1) : wpc[j] # "idle"
                 /\ i > config.MaxWorkers =>
                       Cardinality(ReleasedBefore(i)) >= i - config.MaxWorkers

\* One slot and two entries: the second entry is in its task, and the
\* first has given the slot back but has not yet counted itself done.
C20_Witness ==
    /\ N = 2 /\ config.MaxWorkers = 1
    /\ invoked[2] = 1 /\ wpc[2] \in InTask
    /\ wpc[1] = "released"
    /\ semaphore = 1
\* No two entries of the batch have computed the same archive path.
PairwiseDistinct ==
    \A i, j \in 1..N :
        (i # j /\ tarballName[i] # <<>> /\ tarballName[j] # <<>>) =>
            tarballName[i] # tarballName[j]

\* The image a writer saved: entry w of this batch, or for 0 the image of
\* the earlier invocation.
ItemOf(w) == IF w = 0 THEN ImgColon ELSE items[w]

\* The sidecar at m parses and names the image of writer w, with the id
\* the engine gives that image and the encoding of the blocks beside it.
CarriesItem(m, w) ==
    LET info == DecodeInfo(fs[m]).info
        a == Sibling(m)
    IN /\ info.image_name = ItemOf(w)
       /\ info.image_id = EngineID(ItemOf(w))
       /\ \A k \in 1..Len(fs[a]) :
             fs[a][k].enc # "zero" =>
                (fs[a][k].enc = "gzip" <=> info.compress_type = "gzip")
       /\ w # 0 => info.compress_type = config.CompressType

\* The sidecars that parse and have their archive beside them.
PairedSidecars ==
    {m \in Sidecars(fs) : DecodeInfo(fs[m]).ok /\ Sibling(m) \in DOMAIN fs}

\* C21 as stated: when the entries of a backup batch have computed
\* pairwise distinct archive paths, then after the batch every sidecar on
\* disk carries the image_name, image_id and compress_type of the very
\* item whose save produced the archive beside it.
C21_SidecarOfProducer ==
    (cmd = "backup" /\ mainpc = "done" /\ PairwiseDistinct) =>
        \A m \in PairedSidecars : CarriesItem(m, lastWriter[Sibling(m)])
\* The archive at a holds only blocks that entry w of this batch saved.
SavedBy(a, w) ==
    \A k \in 1..Len(fs[a]) :
        fs[a][k].by = <<1, w>> /\ fs[a][k].img = items[w]

\* Entry i has failed after it opened its archive and before it replaced
\* the sidecar, or is still between the two.
BeforeOwnSidecar(i) ==
    \/ wpc[i] = "write"
    \/ outcome[i] \in {"save failed", "metadata create failed"}

\* C21, amended: when the entries of a backup batch have computed pairwise
\* distinct archive paths, every sidecar that an entry of the batch wrote
\* carries the image_name, image_id and compress_type of that entry, and
\* the archive beside it was saved by that entry alone; a sidecar of an
\* earlier invocation whose archive the batch did not open still agrees
\* with that archive; and a sidecar of an earlier invocation lies beside
\* an archive of the batch only when an entry computed the path of that
\* earlier archive and failed, or has not yet come, to replace the sidecar.
C21_SidecarOfProducerOrStale ==
    (cmd = "backup" /\ PairwiseDistinct) =>
        \A m \in PairedSidecars :
            LET a == Sibling(m)
                w == lastWriter[m]
            IN /\ w # 0 =>
                     /\ lastWriter[a] = w
                     /\ tarballName[w] = a
                     /\ CarriesItem(m, w)
                     /\ SavedBy(a, w)
               /\ (w = 0 /\ lastWriter[a] = 0) => CarriesItem(m, 0)
               /\ (w = 0 /\ lastWriter[a] # 0) =>
                     /\ tarballName[lastWriter[a]] = a
                     /\ BeforeOwnSidecar(lastWriter[a])

\* After a batch of two entries with paths of their own: the first opened
\* the archive an earlier invocation had left for another image, saved
\* its own image there and could not create its sidecar, so the earlier
\* sidecar names an image the archive beside it does not hold; the second
\* entry left an archive and a sidecar that agree.
C21_Witness ==
    /\ cmd = "backup" /\ N = 2 /\ mainpc = "done" /\ PairwiseDistinct
    /\ outcome[1] = "metadata create failed" /\ outcome[2] = "ok"
    /\ LET a == tarballName[1]
           m == MetadataPath(a)
       IN /\ m \in PairedSidecars
          /\ lastWriter[m] = 0 /\ lastWriter[a] = 1
          /\ Len(fs[a]) >= 1 /\ SavedBy(a, 1)
          /\ DecodeInfo(fs[m]).info.image_name # items[1]
    /\ LET m == MetadataPath(tarballName[2])
       IN /\ m \in PairedSidecars
          /\ lastWriter[m] = 2
          /\ CarriesItem(m, 2)
\* A path ends in .tar, .tar.gz or .tgz.
NamedArchive(q) ==
    \/ TarSuffix(q)
    \/ EndsIn(q, ".", "g", "z") /\ TarSuffix(SubSeq(q, 1, Len(q) - 3))
    \/ EndsIn(q, "t", "g", "z") /\ Len(q) >= 4 /\ q[Len(q) - 3] = "."

\* A path ends in .json.
NamedSidecar(q) ==
    /\ Len(q) >= 5
    /\ SubSeq(q, Len(q) - 4, Len(q)) = <<".", "j", "s", "o", "n">>

\* The entries of the listing that stand for the file at q.
EntriesFor(q) == {k \in 1..Len(listing) : BackupDir \o <<"/">> \o listing[k].name = q}

====
